---------------------------- MODULE Spec2Model ----------------------------
(***************************************************************************)
(* A model of the fcm-device-groups client: the construction of an         *)
(* FCMDeviceGroupClient, its five public operations (apply, create_group,  *)
(* add_to_group, remove_from_group, get_key), the token step, the HTTP     *)
(* exchange and the classification of the response into a typed result.    *)
(*                                                                         *)
(* The token provider and the FCM server are the environment: their        *)
(* answers are chosen nondeterministically from small sets.                *)
(*                                                                         *)
(* Option<T> is modelled as a set with at most one element: None is {} and *)
(* Some(x) is {x}.                                                         *)
(***************************************************************************)
EXTENDS Integers, Sequences, FiniteSets, TLC

VARIABLES
    creation,   \* how the client was constructed, and the constructor's outcome
    client,     \* Option<FCMDeviceGroupClient>: {} when construction failed
    pc,         \* per call: "idle", "token" (awaiting get_token), "http" (awaiting send), "done"
    call,       \* per call: the public method invoked and its arguments
    request,    \* per call: the RequestBuilder as the facade has built it so far
    token,      \* per call: Option of the token provider's answer
    sent,       \* per call: Option of the request as put on the wire
    response,   \* per call: Option of the outcome of the HTTP exchange
    result,     \* per call: the value the public method returns
    trace       \* per call: the token and HTTP events of the call, in order

vars == <<creation, client, pc, call, request, token, sent, response, result, trace>>

-----------------------------------------------------------------------------
(* Bounds and input sets *)

\* Longest registration_ids list a caller passes.
MaxRegistrationIds == 1

Calls == {"c1"}

Names == {"g1", "g2"}
Keys == {"K1", "K2"}
Tokens == {"t1", "t2"}

RegistrationIdLists ==
    UNION {[1..n -> {"r1"}] : n \in 0..MaxRegistrationIds}

None == {}
Some(x) == {x}
Unwrap(o) == CHOOSE x \in o : TRUE

-----------------------------------------------------------------------------
(* Headers: a header map is a function from header names to values *)

EmptyHeaders == [n \in {} |-> ""]

HeaderInsert(headers, name, value) ==
    [n \in DOMAIN headers \cup {name} |-> IF n = name THEN value ELSE headers[n]]

\* reqwest applies a client's default headers to a request only where the
\* request does not set the header itself.
WithDefaultHeaders(headers, defaults) ==
    [n \in DOMAIN headers \cup DOMAIN defaults |->
        IF n \in DOMAIN headers THEN headers[n] ELSE defaults[n]]

-----------------------------------------------------------------------------
(* Construction *)

FIREBASE_NOTIFICATION_URL == "https://fcm.googleapis.com/fcm/notification"

FCM_DEVICE_GROUP_SCOPES == <<"https://www.googleapis.com/auth/firebase.messaging">>

SenderIds == {"1234", "5678", "12\n34"}
Urls == {FIREBASE_NOTIFICATION_URL, "http://localhost:8080/fcm"}

\* HeaderValue::try_from rejects strings with control characters.
HeaderValueOk(s) == s # "12\n34"

\* The HTTP clients a caller may hand to with_client, by their default headers.
CallerClients ==
    { [default_headers |-> EmptyHeaders],
      [default_headers |-> [project_id |-> "1234", access_token_auth |-> "true"]],
      [default_headers |-> [project_id |-> "9999", authorization |-> "Bearer preset"]] }

\* A with_url that installs project_id only.
with_url_one_header(url, sender_id, build_ok) ==
    IF ~HeaderValueOk(sender_id) THEN
        [outcome |-> "InvalidHeaderValue", value |-> None]
    ELSE IF ~build_ok THEN
        [outcome |-> "ClientBuild", value |-> None]
    ELSE
        [outcome |-> "Ok",
         value |-> Some([url |-> url,
                         client |-> [default_headers |->
                                        HeaderInsert(EmptyHeaders, "project_id", sender_id)],
                         auth |-> "auth"])]

with_url(url, sender_id, build_ok) ==
    IF ~HeaderValueOk(sender_id) THEN
        [outcome |-> "InvalidHeaderValue", value |-> None]
    ELSE IF ~build_ok THEN
        [outcome |-> "ClientBuild", value |-> None]
    ELSE
        LET headers == HeaderInsert(HeaderInsert(EmptyHeaders, "project_id", sender_id),
                                    "access_token_auth", "true")
        IN  [outcome |-> "Ok",
             value |-> Some([url |-> url,
                             client |-> [default_headers |-> headers],
                             auth |-> "auth"])]

new(sender_id, build_ok) == with_url(FIREBASE_NOTIFICATION_URL, sender_id, build_ok)

with_client(http_client, url) ==
    [outcome |-> "Ok",
     value |-> Some([url |-> url, client |-> http_client, auth |-> "auth"])]

-----------------------------------------------------------------------------
(* Wire schema (raw.rs) and JSON values *)

JsonString(s) == [t |-> "string", v |-> <<s>>]
JsonNumber(s) == [t |-> "number", v |-> <<s>>]
JsonArray(seq) == [t |-> "array", v |-> seq]

EmptyObject == [n \in {} |-> JsonString("")]

\* The Operation enum: Create carries no notification_key, Add and Remove an
\* optional notification_key_name.
Create(notification_key_name, registration_ids) ==
    [tag |-> "Create",
     notification_key_name |-> Some(notification_key_name),
     notification_key |-> None,
     registration_ids |-> registration_ids]

Add(notification_key_name, notification_key, registration_ids) ==
    [tag |-> "Add",
     notification_key_name |-> notification_key_name,
     notification_key |-> Some(notification_key),
     registration_ids |-> registration_ids]

Remove(notification_key_name, notification_key, registration_ids) ==
    [tag |-> "Remove",
     notification_key_name |-> notification_key_name,
     notification_key |-> Some(notification_key),
     registration_ids |-> registration_ids]

Operations ==
    {Create(n, r) : n \in Names, r \in RegistrationIdLists}
    \cup {Add(n, k, r) : n \in {None} \cup {Some(x) : x \in Names},
                         k \in Keys, r \in RegistrationIdLists}
    \cup {Remove(n, k, r) : n \in {None} \cup {Some(x) : x \in Names},
                            k \in Keys, r \in RegistrationIdLists}

\* serde(rename_all = "lowercase") on the variant tag
Lowercase(tag) ==
    CASE tag = "Create" -> "create"
      [] tag = "Add" -> "add"
      [] tag = "Remove" -> "remove"

\* Serialize for Operation: internally tagged with "operation"; an absent
\* notification_key_name is skipped, never written as null.
Serialize(operation) ==
    LET present ==
            {"operation", "registration_ids"}
            \cup (IF operation.notification_key_name # None
                  THEN {"notification_key_name"} ELSE {})
            \cup (IF operation.notification_key # None
                  THEN {"notification_key"} ELSE {})
    IN  [f \in present |->
            CASE f = "operation" -> JsonString(Lowercase(operation.tag))
              [] f = "registration_ids" -> JsonArray(operation.registration_ids)
              [] f = "notification_key_name" ->
                    JsonString(Unwrap(operation.notification_key_name))
              [] f = "notification_key" ->
                    JsonString(Unwrap(operation.notification_key))]

\* A response body: JSON text holding an object, text that is not JSON, or
\* a body whose transfer fails before it is complete.
JsonBody(fields) == [kind |-> "json", fields |-> fields]
TextBody == [kind |-> "text", fields |-> EmptyObject]
BrokenBody == [kind |-> "broken", fields |-> EmptyObject]

\* Deserialize for OperationResponse: an object with a string
\* notification_key; other fields are ignored.
DeserializeOperationResponse(body) ==
    IF /\ body.kind = "json"
       /\ "notification_key" \in DOMAIN body.fields
       /\ body.fields["notification_key"].t = "string"
    THEN Some([notification_key |-> body.fields["notification_key"].v[1]])
    ELSE None

\* Deserialize for FCMDeviceGroupsBadRequest: an object with a string error.
DeserializeBadRequest(body) ==
    IF /\ body.kind = "json"
       /\ "error" \in DOMAIN body.fields
       /\ body.fields["error"].t = "string"
    THEN Some([error |-> body.fields["error"].v[1]])
    ELSE None

-----------------------------------------------------------------------------
(* Error taxonomy (error.rs) *)

ALREADY_EXISTS_MESSAGE == "notification_key already exists"
NO_REGISTRATION_ID_MESSAGE == "no valid registration ids"
KEY_NAME_AND_KEY_DONT_MATCH ==
    "notification_key_name doesn't match the group name of the notification_key"
KEY_NOT_FOUND == "notification_key not found"

BAD_REQUEST == 400

\* reqwest::Error: its kind, and the status it carries (Error::status() is
\* Some only for the error that error_for_status makes).
StatusError(status) == [kind |-> "Status", status |-> Some(status)]
DecodeError == [kind |-> "Decode", status |-> None]
BodyError == [kind |-> "Body", status |-> None]
RequestError == [kind |-> "Request", status |-> None]

\* FCMDeviceGroupsRequestError<E>
HttpError(e) == [variant |-> "HttpError", source |-> e]
BadRequestError(e) == [variant |-> "BadRequestError", source |-> e]

Ok(v) == [kind |-> "Ok", value |-> v]
Err(e) == [kind |-> "Err", error |-> e]
Pending == [kind |-> "Pending"]

\* A generic classifier that keeps only the messages some operation knows.
FCMDeviceGroupsBadRequest_from_error_str_known(error) ==
    IF error.error \in {ALREADY_EXISTS_MESSAGE, NO_REGISTRATION_ID_MESSAGE,
                        KEY_NAME_AND_KEY_DONT_MATCH, KEY_NOT_FOUND}
    THEN Some([type |-> "FCMDeviceGroupsBadRequest", error |-> error.error])
    ELSE None

\* impl FCMDeviceGroupError for FCMDeviceGroupsBadRequest
FCMDeviceGroupsBadRequest_from_error_str(error) ==
    Some([type |-> "FCMDeviceGroupsBadRequest", error |-> error.error])

\* A classifier for Create that also accepts the key-not-found message.
CreateGroupError_from_error_str_any(error) ==
    CASE error.error = ALREADY_EXISTS_MESSAGE ->
            Some([type |-> "CreateGroupError", error |-> "AlreadyExists"])
      [] OTHER ->
            Some([type |-> "CreateGroupError", error |-> "NoValidRegistrationIds"])

CreateGroupError_from_error_str(error) ==
    CASE error.error = ALREADY_EXISTS_MESSAGE ->
            Some([type |-> "CreateGroupError", error |-> "AlreadyExists"])
      [] error.error = NO_REGISTRATION_ID_MESSAGE ->
            Some([type |-> "CreateGroupError", error |-> "NoValidRegistrationIds"])
      [] OTHER -> None

\* A classifier for Add/Remove with two of its arms exchanged.
ChangeGroupMembersError_from_error_str_swapped(error) ==
    CASE error.error = NO_REGISTRATION_ID_MESSAGE ->
            Some([type |-> "ChangeGroupMembersError", error |-> "NoValidRegistrationIds"])
      [] error.error = KEY_NAME_AND_KEY_DONT_MATCH ->
            Some([type |-> "ChangeGroupMembersError", error |-> "KeyNotFound"])
      [] error.error = KEY_NOT_FOUND ->
            Some([type |-> "ChangeGroupMembersError", error |-> "KeyNameAndKeyDontMatch"])
      [] OTHER -> None

ChangeGroupMembersError_from_error_str(error) ==
    CASE error.error = NO_REGISTRATION_ID_MESSAGE ->
            Some([type |-> "ChangeGroupMembersError", error |-> "NoValidRegistrationIds"])
      [] error.error = KEY_NAME_AND_KEY_DONT_MATCH ->
            Some([type |-> "ChangeGroupMembersError", error |-> "KeyNameAndKeyDontMatch"])
      [] error.error = KEY_NOT_FOUND ->
            Some([type |-> "ChangeGroupMembersError", error |-> "KeyNotFound"])
      [] OTHER -> None

GetKeyError_from_error_str(error) ==
    CASE error.error = KEY_NOT_FOUND ->
            Some([type |-> "GetKeyError", error |-> "KeyNotFound"])
      [] OTHER -> None

\* E::from_error_str, dispatched on the type parameter E
from_error_str(E, error) ==
    CASE E = "FCMDeviceGroupsBadRequest" -> FCMDeviceGroupsBadRequest_from_error_str(error)
      [] E = "CreateGroupError" -> CreateGroupError_from_error_str(error)
      [] E = "ChangeGroupMembersError" -> ChangeGroupMembersError_from_error_str(error)
      [] E = "GetKeyError" -> GetKeyError_from_error_str(error)

\* Response::error_for_status_ref: an error for a 4xx or 5xx status only.
error_for_status_ref(resp) ==
    IF resp.status >= 400 /\ resp.status < 600
    THEN Err(StatusError(resp.status))
    ELSE Ok(resp)

\* Response::json::<OperationResponse>: reads the whole body, then decodes it.
json_OperationResponse(resp) ==
    IF resp.body.kind = "broken" THEN Err(BodyError)
    ELSE IF DeserializeOperationResponse(resp.body) = None THEN Err(DecodeError)
    ELSE Ok(Unwrap(DeserializeOperationResponse(resp.body)))

\* Response::json::<FCMDeviceGroupsBadRequest>
json_BadRequest(resp) ==
    IF resp.body.kind = "broken" THEN Err(BodyError)
    ELSE IF DeserializeBadRequest(resp.body) = None THEN Err(DecodeError)
    ELSE Ok(Unwrap(DeserializeBadRequest(resp.body)))

\* A json_response that classifies the body of every error status.
json_response_any_status(E, resp) ==
    LET checked == error_for_status_ref(resp) IN
    IF checked.kind = "Ok" THEN
        LET body == json_OperationResponse(resp) IN
        IF body.kind = "Ok" THEN Ok(body.value) ELSE Err(HttpError(body.error))
    ELSE
        LET e == checked.error
            string_error == json_BadRequest(resp) IN
        IF string_error.kind = "Err" THEN Err(HttpError(string_error.error))
        ELSE
            LET custom_error == from_error_str(E, string_error.value) IN
            IF custom_error # None
            THEN Err(BadRequestError(Unwrap(custom_error)))
            ELSE Err(HttpError(e))

\* FCMDeviceGroupsRequestError::<E>::json_response::<OperationResponse>
json_response(E, resp) ==
    LET checked == error_for_status_ref(resp) IN
    IF checked.kind = "Ok" THEN
        LET body == json_OperationResponse(resp) IN
        IF body.kind = "Ok" THEN Ok(body.value) ELSE Err(HttpError(body.error))
    ELSE
        LET e == checked.error IN
        IF Unwrap(e.status) = BAD_REQUEST THEN
            LET string_error == json_BadRequest(resp) IN
            IF string_error.kind = "Err" THEN Err(HttpError(string_error.error))
            ELSE
                LET custom_error == from_error_str(E, string_error.value) IN
                IF custom_error # None
                THEN Err(BadRequestError(Unwrap(custom_error)))
                ELSE Err(HttpError(e))
        ELSE Err(HttpError(e))

-----------------------------------------------------------------------------
(* The facade (lib.rs) *)

\* RawError, the error of apply_raw and of the token step, and its
\* conversion into FCMDeviceGroupsRequestError<E> by the ? operator.
RawError_GetTokenError == [variant |-> "GetTokenError"]
RawError_HttpError(e) == [variant |-> "HttpError", source |-> e]

FromRawError(raw) ==
    IF raw.variant = "GetTokenError"
    THEN [variant |-> "GetTokenError"]
    ELSE HttpError(raw.source)

FCMDeviceGroup(notification_key_name, notification_key) ==
    [notification_key_name |-> notification_key_name,
     notification_key |-> notification_key]

Groups == {FCMDeviceGroup(n, k) : n \in Names, k \in Keys}

\* self.client.post(self.url.clone()).json(&operation)
PostJson(cl, operation) ==
    [method |-> "POST",
     url |-> cl.url,
     query |-> <<>>,
     headers |-> HeaderInsert(EmptyHeaders, "content-type", "application/json"),
     body |-> Some(Serialize(operation))]

\* self.client.get(self.url.clone()).query(..).header(CONTENT_TYPE, ..)
GetWithQuery(cl, notification_key_name) ==
    [method |-> "GET",
     url |-> cl.url,
     query |-> << <<"notification_key_name", notification_key_name>> >>,
     headers |-> HeaderInsert(EmptyHeaders, "content-type", "application/json"),
     body |-> None]

\* RequestBuilder::bearer_auth
bearer_auth(req, tok) ==
    [req EXCEPT !.headers = HeaderInsert(req.headers, "authorization", "Bearer " \o tok)]

\* An add_token that never attaches the token.
add_token_never(req, answer) == req

\* add_token, given the provider's Ok answer (an Option of a token)
add_token(req, answer) ==
    IF answer # None THEN bearer_auth(req, Unwrap(answer)) ELSE req

\* RequestBuilder::send puts the request on the wire with the HTTP client's
\* default headers filled in.
OnWire(cl, req) ==
    [req EXCEPT !.headers = WithDefaultHeaders(req.headers, cl.client.default_headers)]

\* The Operation and the error type E each high-level method hands to
\* apply_operation.
create_group_operation(notification_key_name, registration_ids) ==
    Create(notification_key_name, registration_ids)

add_to_group_operation(group, registration_ids) ==
    Add(Some(group.notification_key_name), group.notification_key, registration_ids)

remove_from_group_operation(group, registration_ids) ==
    Remove(Some(group.notification_key_name), group.notification_key, registration_ids)

OperationOf(m) ==
    CASE m.method = "apply" -> m.operation
      [] m.method = "create_group" ->
            create_group_operation(m.notification_key_name, m.registration_ids)
      [] m.method = "add_to_group" -> add_to_group_operation(m.group, m.registration_ids)
      [] m.method = "remove_from_group" ->
            remove_from_group_operation(m.group, m.registration_ids)

ErrorTypeOf(m) ==
    CASE m.method = "apply" -> "FCMDeviceGroupsBadRequest"
      [] m.method = "create_group" -> "CreateGroupError"
      [] m.method = "add_to_group" -> "ChangeGroupMembersError"
      [] m.method = "remove_from_group" -> "ChangeGroupMembersError"
      [] m.method = "get_key" -> "GetKeyError"

\* apply_operation's key_name: the operation's notification_key_name, which
\* expect() requires to be present.
key_name(operation) == operation.notification_key_name

\* The tail of apply: the decoded response as it is.
apply_result(resp) == json_response("FCMDeviceGroupsBadRequest", resp)

\* An apply_operation that keeps the key of the request where it has one.
apply_operation_result_request_key(E, operation, resp) ==
    LET decoded == json_response(E, resp) IN
    IF decoded.kind = "Err" THEN decoded
    ELSE Ok(FCMDeviceGroup(Unwrap(key_name(operation)),
                           IF operation.notification_key # None
                           THEN Unwrap(operation.notification_key)
                           ELSE decoded.value.notification_key))

\* The tail of apply_operation: the decoded key under the request's name.
apply_operation_result(E, operation, resp) ==
    LET decoded == json_response(E, resp) IN
    IF decoded.kind = "Err" THEN decoded
    ELSE Ok(FCMDeviceGroup(Unwrap(key_name(operation)), decoded.value.notification_key))

\* The tail of get_key: the decoded key under the name asked for.
get_key_result(notification_key_name, resp) ==
    LET decoded == json_response("GetKeyError", resp) IN
    IF decoded.kind = "Err" THEN decoded
    ELSE Ok(FCMDeviceGroup(notification_key_name, decoded.value.notification_key))

\* What a public method returns for a response.
ResultOf(m, resp) ==
    CASE m.method = "apply" -> apply_result(resp)
      [] m.method = "get_key" -> get_key_result(m.notification_key_name, resp)
      [] OTHER -> apply_operation_result(ErrorTypeOf(m), OperationOf(m), resp)

\* What a public method returns when send fails: apply_raw wraps the error
\* in RawError, get_key converts it directly.
SendErrorOf(m, e) ==
    IF m.method = "get_key" THEN HttpError(e) ELSE FromRawError(RawError_HttpError(e))

-----------------------------------------------------------------------------
(* The environment *)

Statuses == {200, 201, 304, 400, 404, 500}

ErrorMessages ==
    {ALREADY_EXISTS_MESSAGE, NO_REGISTRATION_ID_MESSAGE, KEY_NAME_AND_KEY_DONT_MATCH,
     KEY_NOT_FOUND, "unexpected", "Notification_key not found"}

Bodies ==
    {TextBody, BrokenBody, JsonBody(EmptyObject)}
    \cup {JsonBody([notification_key |-> JsonString(k)]) : k \in Keys}
    \cup {JsonBody([notification_key |-> JsonString("K1"), ignored |-> JsonNumber("1")])}
    \cup {JsonBody([error |-> JsonString(m)]) : m \in ErrorMessages}
    \cup {JsonBody([error |-> JsonNumber("5")])}
    \cup {JsonBody([error |-> JsonString(KEY_NOT_FOUND),
                    notification_key |-> JsonString("K2")])}

Responses == [status : Statuses, body : Bodies]

\* The answers of get_token that are not errors: Some(token) or None.
TokenAnswers == {None} \cup {Some(t) : t \in Tokens}

-----------------------------------------------------------------------------
(* State machine *)

NoCall == [method |-> "none"]
NoRequest == [method |-> "none"]

Constructions ==
    {[how |-> [ctor |-> "new", sender_id |-> s, url |-> FIREBASE_NOTIFICATION_URL],
      made |-> new(s, b)] : s \in SenderIds, b \in BOOLEAN}
    \cup {[how |-> [ctor |-> "with_url", sender_id |-> s, url |-> u],
           made |-> with_url(u, s, b)] : s \in SenderIds, u \in Urls, b \in BOOLEAN}
    \cup {[how |-> [ctor |-> "with_client", http_client |-> h, url |-> u],
           made |-> with_client(h, u)] : h \in CallerClients, u \in Urls}

Init ==
    /\ \E k \in Constructions :
        /\ creation = [how |-> k.how, outcome |-> k.made.outcome]
        /\ client = k.made.value
    /\ pc = [c \in Calls |-> "idle"]
    /\ call = [c \in Calls |-> NoCall]
    /\ request = [c \in Calls |-> NoRequest]
    /\ token = [c \in Calls |-> None]
    /\ sent = [c \in Calls |-> None]
    /\ response = [c \in Calls |-> None]
    /\ result = [c \in Calls |-> Pending]
    /\ trace = [c \in Calls |-> <<>>]

\* Each public method, on entry, builds its request and awaits get_token
\* (apply_raw and get_key call add_token before anything is sent).

\* apply: apply_raw(operation)
apply(c, operation) ==
    /\ client # None
    /\ pc[c] = "idle"
    /\ pc' = [pc EXCEPT ![c] = "token"]
    /\ call' = [call EXCEPT ![c] = [method |-> "apply", operation |-> operation]]
    /\ request' = [request EXCEPT ![c] = PostJson(Unwrap(client), operation)]
    /\ trace' = [trace EXCEPT ![c] = Append(@, "get_token")]
    /\ UNCHANGED <<creation, client, token, sent, response, result>>

\* create_group: apply_operation(Operation::Create {..})
create_group(c, notification_key_name, registration_ids) ==
    /\ client # None
    /\ pc[c] = "idle"
    /\ pc' = [pc EXCEPT ![c] = "token"]
    /\ call' = [call EXCEPT ![c] = [method |-> "create_group",
                                   notification_key_name |-> notification_key_name,
                                   registration_ids |-> registration_ids]]
    /\ request' = [request EXCEPT ![c] = PostJson(Unwrap(client),
                        create_group_operation(notification_key_name, registration_ids))]
    /\ trace' = [trace EXCEPT ![c] = Append(@, "get_token")]
    /\ UNCHANGED <<creation, client, token, sent, response, result>>

\* add_to_group: apply_operation(Operation::Add {..})
add_to_group(c, group, registration_ids) ==
    /\ client # None
    /\ pc[c] = "idle"
    /\ pc' = [pc EXCEPT ![c] = "token"]
    /\ call' = [call EXCEPT ![c] = [method |-> "add_to_group", group |-> group,
                                   registration_ids |-> registration_ids]]
    /\ request' = [request EXCEPT ![c] = PostJson(Unwrap(client),
                        add_to_group_operation(group, registration_ids))]
    /\ trace' = [trace EXCEPT ![c] = Append(@, "get_token")]
    /\ UNCHANGED <<creation, client, token, sent, response, result>>

\* remove_from_group: apply_operation(Operation::Remove {..})
remove_from_group(c, group, registration_ids) ==
    /\ client # None
    /\ pc[c] = "idle"
    /\ pc' = [pc EXCEPT ![c] = "token"]
    /\ call' = [call EXCEPT ![c] = [method |-> "remove_from_group", group |-> group,
                                   registration_ids |-> registration_ids]]
    /\ request' = [request EXCEPT ![c] = PostJson(Unwrap(client),
                        remove_from_group_operation(group, registration_ids))]
    /\ trace' = [trace EXCEPT ![c] = Append(@, "get_token")]
    /\ UNCHANGED <<creation, client, token, sent, response, result>>

\* get_key: a GET with the name as query parameter
get_key(c, notification_key_name) ==
    /\ client # None
    /\ pc[c] = "idle"
    /\ pc' = [pc EXCEPT ![c] = "token"]
    /\ call' = [call EXCEPT ![c] = [method |-> "get_key",
                                   notification_key_name |-> notification_key_name]]
    /\ request' = [request EXCEPT ![c] = GetWithQuery(Unwrap(client), notification_key_name)]
    /\ trace' = [trace EXCEPT ![c] = Append(@, "get_token")]
    /\ UNCHANGED <<creation, client, token, sent, response, result>>

\* A token failure after which the request is sent all the same.
TokenFailed_still_sends(c) ==
    /\ pc[c] = "token"
    /\ pc' = [pc EXCEPT ![c] = "http"]
    /\ token' = [token EXCEPT ![c] = Some(Err("token"))]
    /\ sent' = [sent EXCEPT ![c] = Some(OnWire(Unwrap(client), request[c]))]
    /\ trace' = [trace EXCEPT ![c] = @ \o <<"get_token failed", "send">>]
    /\ UNCHANGED <<creation, client, call, request, response, result>>

\* get_token fails: the method returns without sending.
TokenFailed(c) ==
    /\ pc[c] = "token"
    /\ pc' = [pc EXCEPT ![c] = "done"]
    /\ token' = [token EXCEPT ![c] = Some(Err("token"))]
    /\ result' = [result EXCEPT ![c] = Err(FromRawError(RawError_GetTokenError))]
    /\ trace' = [trace EXCEPT ![c] = Append(@, "get_token failed")]
    /\ UNCHANGED <<creation, client, call, request, sent, response>>

\* A token step that also keeps the token in the client's default headers.
TokenAnswered_caches(c, answer) ==
    /\ pc[c] = "token"
    /\ pc' = [pc EXCEPT ![c] = "http"]
    /\ token' = [token EXCEPT ![c] = Some(Ok(answer))]
    /\ request' = [request EXCEPT ![c] = add_token(@, answer)]
    /\ sent' = [sent EXCEPT ![c] = Some(OnWire(Unwrap(client), request'[c]))]
    /\ trace' = [trace EXCEPT ![c] = @ \o <<"get_token answered", "send">>]
    /\ client' =
        IF answer = None THEN client
        ELSE Some([Unwrap(client) EXCEPT !.client.default_headers =
                    HeaderInsert(@, "authorization", "Bearer " \o Unwrap(answer))])
    /\ UNCHANGED <<creation, call, response, result>>

\* get_token answers: the token, if any, is attached and the request is sent.
TokenAnswered(c, answer) ==
    /\ pc[c] = "token"
    /\ pc' = [pc EXCEPT ![c] = "http"]
    /\ token' = [token EXCEPT ![c] = Some(Ok(answer))]
    /\ request' = [request EXCEPT ![c] = add_token(@, answer)]
    /\ sent' = [sent EXCEPT ![c] = Some(OnWire(Unwrap(client), request'[c]))]
    /\ trace' = [trace EXCEPT ![c] = @ \o <<"get_token answered", "send">>]
    /\ UNCHANGED <<creation, client, call, response, result>>

\* A send failure after which the request is sent once more.
SendFailed_retries(c) ==
    /\ pc[c] = "http"
    /\ Len(trace[c]) < 8
    /\ trace' = [trace EXCEPT ![c] = @ \o <<"send failed", "send">>]
    /\ UNCHANGED <<creation, client, pc, call, request, token, sent, response, result>>

\* send fails before a response arrives.
SendFailed(c) ==
    /\ pc[c] = "http"
    /\ pc' = [pc EXCEPT ![c] = "done"]
    /\ response' = [response EXCEPT ![c] = Some(Err(RequestError))]
    /\ result' = [result EXCEPT ![c] = Err(SendErrorOf(call[c], RequestError))]
    /\ trace' = [trace EXCEPT ![c] = Append(@, "send failed")]
    /\ UNCHANGED <<creation, client, call, request, token, sent>>

\* The server responds: the response is decoded or classified.
Responded(c, resp) ==
    /\ pc[c] = "http"
    /\ pc' = [pc EXCEPT ![c] = "done"]
    /\ response' = [response EXCEPT ![c] = Some(Ok(resp))]
    /\ result' = [result EXCEPT ![c] = ResultOf(call[c], resp)]
    /\ trace' = [trace EXCEPT ![c] = Append(@, "response")]
    /\ UNCHANGED <<creation, client, call, request, token, sent>>

\* The caller takes the result; the call slot is free for the next call.
Return(c) ==
    /\ pc[c] = "done"
    /\ pc' = [pc EXCEPT ![c] = "idle"]
    /\ call' = [call EXCEPT ![c] = NoCall]
    /\ request' = [request EXCEPT ![c] = NoRequest]
    /\ token' = [token EXCEPT ![c] = None]
    /\ sent' = [sent EXCEPT ![c] = None]
    /\ response' = [response EXCEPT ![c] = None]
    /\ result' = [result EXCEPT ![c] = Pending]
    /\ trace' = [trace EXCEPT ![c] = <<>>]
    /\ UNCHANGED <<creation, client>>

Next ==
    \E c \in Calls :
        \/ \E operation \in Operations : apply(c, operation)
        \/ \E n \in Names, r \in RegistrationIdLists : create_group(c, n, r)
        \/ \E g \in Groups, r \in RegistrationIdLists : add_to_group(c, g, r)
        \/ \E g \in Groups, r \in RegistrationIdLists : remove_from_group(c, g, r)
        \/ \E n \in Names : get_key(c, n)
        \/ TokenFailed(c)
        \/ \E answer \in TokenAnswers : TokenAnswered(c, answer)
        \/ SendFailed(c)
        \/ \E resp \in Responses : Responded(c, resp)
        \/ Return(c)

Spec == Init /\ [][Next]_vars

-----------------------------------------------------------------------------
(* Concurrent calls on one client value: the methods take &self, so two    *)
(* calls may be in flight at once and their token and HTTP steps may       *)
(* interleave in any order.                                                *)

ConcCalls == {"c1", "c2"}

ConcConstructions ==
    { [how |-> [ctor |-> "with_url", sender_id |-> "1234",
                url |-> "http://localhost:8080/fcm"],
       made |-> with_url("http://localhost:8080/fcm", "1234", TRUE)],
      [how |-> [ctor |-> "with_client",
                http_client |-> [default_headers |->
                    [project_id |-> "9999", authorization |-> "Bearer preset"]],
                url |-> FIREBASE_NOTIFICATION_URL],
       made |-> with_client([default_headers |->
                    [project_id |-> "9999", authorization |-> "Bearer preset"]],
                    FIREBASE_NOTIFICATION_URL)] }

ConcOperations == {Add(None, "K1", <<"r1">>)}
ConcGroups == {FCMDeviceGroup("g1", "K1")}

ConcResponses ==
    { [status |-> 200, body |-> JsonBody([notification_key |-> JsonString("K1")])],
      [status |-> 200, body |-> JsonBody([notification_key |-> JsonString("K2")])],
      [status |-> 400, body |-> JsonBody([error |-> JsonString(KEY_NOT_FOUND)])],
      [status |-> 400, body |-> TextBody],
      [status |-> 500, body |-> TextBody] }

InitConc ==
    /\ \E k \in ConcConstructions :
        /\ creation = [how |-> k.how, outcome |-> k.made.outcome]
        /\ client = k.made.value
    /\ pc = [c \in ConcCalls |-> "idle"]
    /\ call = [c \in ConcCalls |-> NoCall]
    /\ request = [c \in ConcCalls |-> NoRequest]
    /\ token = [c \in ConcCalls |-> None]
    /\ sent = [c \in ConcCalls |-> None]
    /\ response = [c \in ConcCalls |-> None]
    /\ result = [c \in ConcCalls |-> Pending]
    /\ trace = [c \in ConcCalls |-> <<>>]

\* A call is entered only while every other call is still to be entered or
\* is awaiting its token: any two calls entered overlap in time.
Overlapping == \A d \in ConcCalls : pc[d] \in {"idle", "token"}

NextConc ==
    \E c \in ConcCalls :
        \/ Overlapping /\ \E operation \in ConcOperations : apply(c, operation)
        \/ Overlapping /\ create_group(c, "g1", <<"r1">>)
        \/ Overlapping /\ \E g \in ConcGroups : add_to_group(c, g, <<"r1">>)
        \/ Overlapping /\ \E g \in ConcGroups : remove_from_group(c, g, <<"r1">>)
        \/ Overlapping /\ \E n \in Names : get_key(c, n)
        \/ TokenFailed(c)
        \/ \E answer \in TokenAnswers : TokenAnswered(c, answer)
        \/ SendFailed(c)
        \/ \E resp \in ConcResponses : Responded(c, resp)

SpecConc == InitConc /\ [][NextConc]_vars

-----------------------------------------------------------------------------
(* Properties *)

HighLevel == {"create_group", "add_to_group", "remove_from_group", "get_key"}

Completed(c) == pc[c] = "done"

\* The server's response to call c, once one has arrived.
HasResponse(c) == response[c] # None /\ Unwrap(response[c]).kind = "Ok"
ResponseOf(c) == Unwrap(response[c]).value

\* The body of call c's response is the JSON object {"error": m} (possibly
\* with further fields).
BodySaysError(c, m) ==
    /\ HasResponse(c)
    /\ ResponseOf(c).body.kind = "json"
    /\ "error" \in DOMAIN ResponseOf(c).body.fields
    /\ ResponseOf(c).body.fields["error"] = [t |-> "string", v |-> <<m>>]

IsBadRequestError(r, type, variant) ==
    /\ r.kind = "Err"
    /\ r.error.variant = "BadRequestError"
    /\ r.error.source = [type |-> type, error |-> variant]

IsHttpErrorWithStatus(r, status) ==
    /\ r.kind = "Err"
    /\ r.error.variant = "HttpError"
    /\ r.error.source.status = {status}

\* The classification table: method, message, error type, variant.
ClassificationTable ==
    { <<"create_group", "notification_key already exists",
        "CreateGroupError", "AlreadyExists">>,
      <<"create_group", "no valid registration ids",
        "CreateGroupError", "NoValidRegistrationIds">>,
      <<"add_to_group", "no valid registration ids",
        "ChangeGroupMembersError", "NoValidRegistrationIds">>,
      <<"add_to_group",
        "notification_key_name doesn't match the group name of the notification_key",
        "ChangeGroupMembersError", "KeyNameAndKeyDontMatch">>,
      <<"add_to_group", "notification_key not found",
        "ChangeGroupMembersError", "KeyNotFound">>,
      <<"remove_from_group", "no valid registration ids",
        "ChangeGroupMembersError", "NoValidRegistrationIds">>,
      <<"remove_from_group",
        "notification_key_name doesn't match the group name of the notification_key",
        "ChangeGroupMembersError", "KeyNameAndKeyDontMatch">>,
      <<"remove_from_group", "notification_key not found",
        "ChangeGroupMembersError", "KeyNotFound">>,
      <<"get_key", "notification_key not found", "GetKeyError", "KeyNotFound">> }

\* C1: a high-level operation answered with HTTP 400 and {"error": m}, m a
\* message of the operation's rows of the classification table, returns
\* BadRequestError carrying the variant of that row.
C1_TableRowsClassified ==
    \A c \in Calls : \A row \in ClassificationTable :
        (/\ Completed(c)
         /\ call[c].method = row[1]
         /\ HasResponse(c)
         /\ ResponseOf(c).status = 400
         /\ BodySaysError(c, row[2]))
        => IsBadRequestError(result[c], row[3], row[4])

C1_Witness ==
    \E c \in Calls :
        /\ Completed(c)
        /\ call[c].method = "remove_from_group"
        /\ HasResponse(c)
        /\ ResponseOf(c).status = 400
        /\ BodySaysError(c, "notification_key_name doesn't match the group name of the notification_key")
        /\ IsBadRequestError(result[c], "ChangeGroupMembersError", "KeyNameAndKeyDontMatch")

\* C2: a high-level operation answered with HTTP 400 and {"error": m}, m not
\* a message of the operation's rows of the table, returns HttpError carrying
\* status 400: neither BadRequestError nor a success.
C2_UnknownMessageIsHttpError ==
    \A c \in Calls : \A m \in ErrorMessages :
        (/\ Completed(c)
         /\ call[c].method \in HighLevel
         /\ HasResponse(c)
         /\ ResponseOf(c).status = 400
         /\ BodySaysError(c, m)
         /\ ~\E row \in ClassificationTable : row[1] = call[c].method /\ row[2] = m)
        => IsHttpErrorWithStatus(result[c], 400)

C2_Witness ==
    \E c \in Calls :
        /\ Completed(c)
        /\ call[c].method = "create_group"
        /\ HasResponse(c)
        /\ ResponseOf(c).status = 400
        /\ BodySaysError(c, "notification_key not found")
        /\ IsHttpErrorWithStatus(result[c], 400)

TokenWasAnswered(c) == token[c] # None /\ Unwrap(token[c]).kind = "Ok"
TokenAnswerOf(c) == Unwrap(token[c]).value

\* The body of call c's response is a JSON object with the string k as its
\* notification_key.
BodyHasKey(c, k) ==
    /\ HasResponse(c)
    /\ ResponseOf(c).body.kind = "json"
    /\ "notification_key" \in DOMAIN ResponseOf(c).body.fields
    /\ ResponseOf(c).body.fields["notification_key"] = [t |-> "string", v |-> <<k>>]

\* C4: when the token provider fails, the operation returns GetTokenError
\* and no HTTP request is issued for the call.
C4_TokenFailureSendsNothing ==
    \A c \in Calls :
        (token[c] # None /\ Unwrap(token[c]).kind = "Err")
        => /\ Completed(c)
           /\ result[c] = [kind |-> "Err", error |-> [variant |-> "GetTokenError"]]
           /\ sent[c] = {}
           /\ response[c] = {}
           /\ \A i \in 1..Len(trace[c]) : trace[c][i] # "send"

C4_Witness ==
    \E c \in Calls :
        /\ call[c].method = "get_key"
        /\ token[c] # None
        /\ Unwrap(token[c]).kind = "Err"
        /\ result[c].kind = "Err"
        /\ result[c].error.variant = "GetTokenError"
        /\ sent[c] = {}

\* C5 as stated: a request on the wire has an Authorization header exactly
\* when the provider returned a token, and then "Bearer <that token>"; with
\* no token the request is still sent, without an Authorization header, and
\* the server's result is returned.
C5_AuthorizationIffToken ==
    \A c \in Calls :
        /\ (TokenWasAnswered(c) /\ pc[c] \in {"http", "done"}) => sent[c] # {}
        /\ sent[c] # {} =>
            /\ TokenWasAnswered(c)
            /\ ("authorization" \in DOMAIN Unwrap(sent[c]).headers)
                    <=> (TokenAnswerOf(c) # {})
            /\ \A t \in Tokens :
                TokenAnswerOf(c) = {t}
                    => Unwrap(sent[c]).headers["authorization"] = "Bearer " \o t
        /\ \A k \in Keys :
            (/\ Completed(c) /\ TokenWasAnswered(c) /\ TokenAnswerOf(c) = {}
             /\ HasResponse(c) /\ ResponseOf(c).status = 200 /\ BodyHasKey(c, k))
            => (result[c].kind = "Ok" /\ result[c].value.notification_key = k)

\* C5 as amended: when the provider returned a token the request on the wire
\* has the header Authorization: Bearer <that token>; with no token the
\* request is still sent and the facade adds no Authorization header: the
\* request has one only if the HTTP client given to with_client sets it by
\* default (never for a client built by new or with_url); the server's
\* result is returned.
C5_AuthorizationFromToken ==
    \A c \in Calls :
        /\ (TokenWasAnswered(c) /\ pc[c] \in {"http", "done"}) => sent[c] # {}
        /\ sent[c] # {} =>
            /\ TokenWasAnswered(c)
            /\ \A t \in Tokens :
                TokenAnswerOf(c) = {t}
                    => /\ "authorization" \in DOMAIN Unwrap(sent[c]).headers
                       /\ Unwrap(sent[c]).headers["authorization"] = "Bearer " \o t
            /\ TokenAnswerOf(c) = {} =>
                IF creation.how.ctor = "with_client"
                   /\ "authorization" \in DOMAIN creation.how.http_client.default_headers
                THEN /\ "authorization" \in DOMAIN Unwrap(sent[c]).headers
                     /\ Unwrap(sent[c]).headers["authorization"]
                            = creation.how.http_client.default_headers["authorization"]
                ELSE "authorization" \notin DOMAIN Unwrap(sent[c]).headers
        /\ \A k \in Keys :
            (/\ Completed(c) /\ TokenWasAnswered(c) /\ TokenAnswerOf(c) = {}
             /\ HasResponse(c) /\ ResponseOf(c).status = 200 /\ BodyHasKey(c, k))
            => (result[c].kind = "Ok" /\ result[c].value.notification_key = k)

C5_Witness ==
    \E c \in Calls :
        /\ Completed(c)
        /\ creation.how.ctor = "with_url"
        /\ TokenWasAnswered(c)
        /\ TokenAnswerOf(c) = {}
        /\ sent[c] # {}
        /\ "authorization" \notin DOMAIN Unwrap(sent[c]).headers
        /\ BodyHasKey(c, "K2")
        /\ ResponseOf(c).status = 200
        /\ result[c].kind = "Ok"

\* The name the caller passed to a high-level method.
NamePassed(m) ==
    IF m.method \in {"create_group", "get_key"}
    THEN m.notification_key_name
    ELSE m.group.notification_key_name

\* C6: whenever a high-level operation succeeds, the returned device group
\* has the notification_key of the response body and the name the caller
\* passed in.
C6_NameEchoed ==
    \A c \in Calls :
        (Completed(c) /\ call[c].method \in HighLevel /\ result[c].kind = "Ok")
        => /\ BodyHasKey(c, result[c].value.notification_key)
           /\ result[c].value.notification_key_name = NamePassed(call[c])

C6_Witness ==
    \E c \in Calls :
        /\ Completed(c)
        /\ call[c].method = "add_to_group"
        /\ call[c].group = [notification_key_name |-> "g2", notification_key |-> "K1"]
        /\ BodyHasKey(c, "K2")
        /\ result[c] = [kind |-> "Ok",
                        value |-> [notification_key_name |-> "g2",
                                   notification_key |-> "K2"]]

\* C7: every request of a client built by new or with_url carries
\* project_id: <sender_id> and access_token_auth: true; for a client built by
\* with_client a request carries either header exactly as the caller's HTTP
\* client sets it by default, and not at all if it does not.
C7_DefaultHeaders ==
    \A c \in Calls :
        sent[c] # {} =>
            LET headers == Unwrap(sent[c]).headers IN
            IF creation.how.ctor \in {"new", "with_url"}
            THEN /\ "project_id" \in DOMAIN headers
                 /\ headers["project_id"] = creation.how.sender_id
                 /\ "access_token_auth" \in DOMAIN headers
                 /\ headers["access_token_auth"] = "true"
            ELSE \A n \in {"project_id", "access_token_auth"} :
                    IF n \in DOMAIN creation.how.http_client.default_headers
                    THEN /\ n \in DOMAIN headers
                         /\ headers[n] = creation.how.http_client.default_headers[n]
                    ELSE n \notin DOMAIN headers

C7_Witness ==
    \E c \in Calls :
        /\ sent[c] # {}
        /\ call[c].method = "get_key"
        /\ creation.how.ctor = "with_url"
        /\ creation.how.sender_id = "5678"
        /\ Unwrap(sent[c]).headers["project_id"] = "5678"
        /\ Unwrap(sent[c]).headers["access_token_auth"] = "true"

\* C8: apply does no per-operation classification: every 400 response with
\* body {"error": m} yields BadRequestError carrying the generic bad request
\* with error = m, for every m; a 2xx response with a notification_key
\* yields the OperationResponse with that key.
C8_ApplyIsUnclassified ==
    \A c \in Calls :
        (Completed(c) /\ call[c].method = "apply" /\ HasResponse(c))
        => /\ \A m \in ErrorMessages :
                (ResponseOf(c).status = 400 /\ BodySaysError(c, m))
                => IsBadRequestError(result[c], "FCMDeviceGroupsBadRequest", m)
           /\ \A k \in Keys :
                (ResponseOf(c).status \in 200..299 /\ BodyHasKey(c, k))
                => result[c] = [kind |-> "Ok", value |-> [notification_key |-> k]]

C8_Witness ==
    \E c \in Calls :
        /\ Completed(c)
        /\ call[c].method = "apply"
        /\ call[c].operation.tag = "Remove"
        /\ HasResponse(c)
        /\ ResponseOf(c).status = 400
        /\ BodySaysError(c, "unexpected")
        /\ IsBadRequestError(result[c], "FCMDeviceGroupsBadRequest", "unexpected")

\* C9: when the server answers 400 and the body is not JSON or has no string
\* error field, the operation returns HttpError carrying status 400.
C9_UndecodableBadRequest ==
    \A c \in Calls :
        (/\ Completed(c)
         /\ HasResponse(c)
         /\ ResponseOf(c).status = 400
         /\ \/ ResponseOf(c).body.kind = "text"
            \/ /\ ResponseOf(c).body.kind = "json"
               /\ \/ "error" \notin DOMAIN ResponseOf(c).body.fields
                  \/ ResponseOf(c).body.fields["error"].t # "string")
        => IsHttpErrorWithStatus(result[c], 400)

\* The event sequences of a call that has returned.
CompleteTraces ==
    { <<"get_token", "get_token failed">>,
      <<"get_token", "get_token answered", "send", "send failed">>,
      <<"get_token", "get_token answered", "send", "response">> }

IsPrefix(s, t) == Len(s) <= Len(t) /\ SubSeq(t, 1, Len(s)) = s

\* C10: each call asks for a token exactly once and then sends at most one
\* HTTP request, after the token step has completed, and returns after the
\* first error or the first response: no second token request and no second
\* HTTP request.
C10_OneTokenOneExchange ==
    \A c \in Calls :
        /\ \E t \in CompleteTraces : IsPrefix(trace[c], t)
        /\ Completed(c) <=> trace[c] \in CompleteTraces
        /\ Completed(c) => result[c].kind \in {"Ok", "Err"}
        /\ pc[c] # "idle" => Cardinality({i \in 1..Len(trace[c]) : trace[c][i] = "get_token"}) = 1
        /\ Cardinality({i \in 1..Len(trace[c]) : trace[c][i] = "send"}) <= 1
        /\ Cardinality({i \in 1..Len(trace[c]) : trace[c][i] = "send"}) = Cardinality(sent[c])

C10_Witness ==
    \E c \in Calls :
        /\ Completed(c)
        /\ trace[c] = <<"get_token", "get_token answered", "send", "send failed">>
        /\ result[c].kind = "Err"
        /\ result[c].error.variant = "HttpError"

\* The variables of call c.
CallState(c) ==
    <<pc[c], call[c], request[c], token[c], sent[c], response[c], result[c], trace[c]>>

\* The client value is the same after a step as before it.
ClientUnchanged == client' = client /\ creation' = creation

\* A step is a step of one call: the variables of every other call are as
\* they were.
OneCallSteps ==
    \E c \in DOMAIN pc :
        \A d \in DOMAIN pc \ {c} :
            <<pc[d], call[d], request[d], token[d], sent[d], response[d], result[d], trace[d]>>'
                = CallState(d)

\* Two calls in the same state with the same arguments, the same token answer
\* and the same outcome of the HTTP exchange have the same request on the
\* wire and the same result.
SameInputsSameResult ==
    \A c, d \in DOMAIN pc :
        (/\ pc[c] = pc[d]
         /\ call[c] = call[d]
         /\ token[c] = token[d]
         /\ response[c] = response[d])
        => (result[c] = result[d] /\ sent[c] = sent[d])

\* C11: the client holds no mutable state: no step of any operation changes
\* the client (base URL, default headers, token provider); a step of one
\* operation leaves the state of every other operation as it was; and the
\* result of an operation is determined by its own arguments, its own token
\* answer and its own HTTP response, however the steps interleave.
C11_NoMutableState ==
    /\ []SameInputsSameResult
    /\ [][ClientUnchanged /\ OneCallSteps]_vars

\* Two overlapping calls of the same method with the same arguments and the
\* same token answer have received different responses, and each returns
\* the result of its own response.
C11_Witness ==
    /\ pc["c1"] = "done" /\ pc["c2"] = "done"
    /\ call["c1"].method = "get_key"
    /\ call["c1"] = call["c2"]
    /\ token["c1"] = token["c2"]
    /\ token["c1"] = {[kind |-> "Ok", value |-> {"t1"}]}
    /\ HasResponse("c1") /\ HasResponse("c2")
    /\ ResponseOf("c1").status = 200
    /\ ResponseOf("c2").status = 400
    /\ result["c1"].kind = "Ok"
    /\ result["c2"].kind = "Err"
    /\ result["c2"].error.variant = "BadRequestError"
    /\ client = {[url |-> "http://localhost:8080/fcm",
                  client |-> [default_headers |->
                                [project_id |-> "1234", access_token_auth |-> "true"]],
                  auth |-> "auth"]}

=============================================================================
